---------------------------- MODULE Spec2Model ----------------------------
(***************************************************************************)
(* Knight's-tour solver of src/src/main.rs: the Board structure, its move  *)
(* generation / application / rollback, the Warnsdorff step                *)
(* apply_best_move and the driver loop do_loop.                            *)
(*                                                                         *)
(* A Coord is a pair <<file, rank>>.  The grid is the flat array           *)
(* board[0..63] indexed by file*8+rank.  The solver thread is the only     *)
(* process; pc is its position:                                            *)
(*   "loop"   at the head of do_loop's loop (a driver iteration boundary)  *)
(*   "eval"   inside apply_best_move's for loop, before candidate i        *)
(*   "made"   inside that loop, after make_move of candidate i             *)
(*   "done"   do_loop has returned (Mutation::Stop)                        *)
(*   "panic"  the thread has panicked (expect / unwrap / index out of      *)
(*            range)                                                       *)
(*                                                                         *)
(* main's loop is the second process, the consumer of the channel; main_pc *)
(* is its position:                                                        *)
(*   "off"     the loop is left out (the solver thread is followed alone,  *)
(*             the receiver stays alive and is never polled)               *)
(*   "recv"    before rx.try_recv()                                        *)
(*   "events"  before the poll of the window events                        *)
(*   "draw"    before the drawing of the board and of current_vec          *)
(*   "exited"  the loop was left by Escape / Quit and rx is dropped        *)
(***************************************************************************)
EXTENDS Integers, Sequences, FiniteSets, TLC

VARIABLES
    size,           \* side of the board tested by is_on_board (8 in the source)
    moves_made,     \* Board.moves_made : Vec<Coord>
    current,        \* Board.current : Coord
    moves_to_make,  \* Board.moves_to_make : Vec<Vec<Coord>>
    board,          \* Board.board : [i8; 64]
    pc,             \* position of the solver thread
    cands,          \* apply_best_move: the clone of moves_to_make.last()
    i,              \* apply_best_move: 1-based position in cands
    best,           \* apply_best_move: <<>> for None, <<c, len, idx>> for Some
    sent,           \* every Vec<Coord> sender.send accepted, in order
    steps,          \* number of do_loop iterations started
    entry,          \* history variable: the Board on entry to apply_best_move
    limit,          \* number of do_loop iterations followed in this run
    trail,          \* history variable: the histories the Advance steps left
                    \* ({} when they are not recorded)
    chan,           \* the mpsc channel: messages sent and not yet received
    rx_alive,       \* the Receiver rx has not been dropped
    current_vec,    \* main: <<>> for None, <<vec>> for Some(vec)
    main_pc         \* position of main's loop

solver_vars == <<size, moves_made, current, moves_to_make, board, pc, cands, i,
                 best, sent, steps, entry, limit, trail>>

main_vars == <<rx_alive, current_vec, main_pc>>

vars == <<solver_vars, chan, main_vars>>

(* Bound of the model: do_loop iterations explored. *)
MaxSteps == 6100

(* Bound of the model: do_loop iterations explored beside main's loop. *)
MaxMainSteps == 105

(* Bound of the model: do_loop iterations explored with the trail recorded. *)
MaxTrailSteps == 400

(* Reduced board sides for the exhaustive runs of SpecSmall. *)
ReducedSizes == {3, 4}

BoardSide == 8

Cells == 64

TourLength == 64

Start == <<0, 0>>

Abs(x) == IF x < 0 THEN -x ELSE x

Last(s) == s[Len(s)]

Front(s) == SubSeq(s, 1, Len(s) - 1)

(* impl Add / AddAssign for Coord *)
Add(a, b) == <<a[1] + b[1], a[2] + b[2]>>

(* impl SubAssign for Coord *)
Sub(a, b) == <<a[1] - b[1], a[2] - b[2]>>

combs == <<1, 2, -1, -2>>

(* combs x combs by flat_map: the first component varies slowest *)
AllPairs ==
    [k \in 1..16 |-> <<combs[((k - 1) \div 4) + 1], combs[((k - 1) % 4) + 1]>>]

(* the table built with Coord(j, i): file and rank exchanged *)
moves_swapped ==
    SelectSeq([k \in 1..16 |-> <<AllPairs[k][2], AllPairs[k][1]>>],
              LAMBDA c : Abs(c[1]) # Abs(c[2]))

(* Board.moves: the pairs with |file| # |rank|, in enumeration order *)
moves == SelectSeq(AllPairs, LAMBDA c : Abs(c[1]) # Abs(c[2]))

(* Board::index_of.  A negative result stands for the huge usize the cast   *)
(* of a negative i8 gives: either way it is outside 0..63.                  *)
index_of(c) == c[1] * 8 + c[2]

InRange(idx) == idx \in 0..(Cells - 1)

(* The Board as a value: the three fields make_move and rollback touch. *)
Brd(mm, cur, bd) == [moves_made |-> mm, current |-> cur, board |-> bd]

ThisBoard == Brd(moves_made, current, board)

value_at(b, c) == b.board[index_of(c)]

set_value_at(bd, c, val) == [bd EXCEPT ![index_of(c)] = val]

is_on_board(c) == c[1] >= 0 /\ c[1] < size /\ c[2] >= 0 /\ c[2] < size

can_move(b, c) == value_at(b, c) = 0

(* available_moves without the can_move test *)
available_moves_ignore_visited(b) ==
    SelectSeq(moves, LAMBDA m : is_on_board(Add(b.current, m)))

available_moves(b) ==
    SelectSeq(moves, LAMBDA m : is_on_board(Add(b.current, m))
                                /\ can_move(b, Add(b.current, m)))

make_move(b, c) ==
    LET cur == Add(b.current, c)
        mm  == Append(b.moves_made, c)
    IN  Brd(mm, cur, set_value_at(b.board, cur, Len(mm)))

(* rollback that leaves the visit order in the cell it moves off *)
rollback_keep_mark(b) ==
    Brd(Front(b.moves_made), Sub(b.current, Last(b.moves_made)), b.board)

(* rollback that pops the history but does not move current back *)
rollback_keep_current(b) ==
    Brd(Front(b.moves_made), b.current, set_value_at(b.board, b.current, 0))

(* rollback that moves current back before it clears the cell *)
rollback_clear_after(b) ==
    Brd(Front(b.moves_made),
        Sub(b.current, Last(b.moves_made)),
        set_value_at(b.board, Sub(b.current, Last(b.moves_made)), 0))

(* rollback with a non-empty history *)
rollback(b) ==
    Brd(Front(b.moves_made),
        Sub(b.current, Last(b.moves_made)),
        set_value_at(b.board, b.current, 0))

(* the match with <= in its guard: the last of equal candidates wins *)
pick_best_last_wins(bst, c, new_len, idx) ==
    IF bst = <<>> THEN <<c, new_len, idx>>
    ELSE IF new_len <= bst[2] THEN <<c, new_len, idx>>
    ELSE bst

(* the match with > in its guard: the most mobile candidate wins *)
pick_best_largest(bst, c, new_len, idx) ==
    IF bst = <<>> THEN <<c, new_len, idx>>
    ELSE IF new_len > bst[2] THEN <<c, new_len, idx>>
    ELSE bst

(* the match on best in apply_best_move's loop *)
pick_best(bst, c, new_len, idx) ==
    IF bst = <<>> THEN <<c, new_len, idx>>
    ELSE IF new_len < bst[2] THEN <<c, new_len, idx>>
    ELSE bst

(* the Rollback arm without its pop *)
pop_candidates_skip(mtm) == mtm

(* moves_to_make.pop() in do_loop's Rollback arm *)
pop_candidates(mtm) == Front(mtm)

(* apply_best_move without the remove of the winner *)
Remove_nothing(s, idx) == s

(* Vec::remove(idx), idx 1-based here *)
Remove(s, idx) == SubSeq(s, 1, idx - 1) \o SubSeq(s, idx + 1, Len(s))

get_action(mtm) ==
    IF mtm = <<>> THEN "Stop"
    ELSE IF Last(mtm) = <<>> THEN "Rollback"
    ELSE "Move"

is_closed_tour(b) ==
    \E k \in 1..Len(moves) : Add(b.current, moves[k]) = b.moves_made[1]

(* the send condition without the test of closure *)
should_send_unclosed(b) == Len(b.moves_made) = TourLength

(* the send condition without the test of the history length *)
should_send_any_length(b) == is_closed_tour(b)

(* the condition of do_loop's send *)
should_send(b) == Len(b.moves_made) = TourLength /\ is_closed_tour(b)

(* Board::new *)
NewBoard ==
    /\ moves_made = <<>>
    /\ current = Start
    /\ board = [k \in 0..(Cells - 1) |-> 0]
    /\ moves_to_make = <<available_moves(ThisBoard)>>

InitLocals ==
    /\ pc = "loop"
    /\ cands = <<>>
    /\ i = 1
    /\ best = <<>>
    /\ sent = <<>>
    /\ steps = 0
    /\ entry = <<ThisBoard, moves_to_make>>

(* main: mpsc::channel() and current_vec = None, the loop left out *)
MainOff ==
    /\ chan = <<>>
    /\ rx_alive = TRUE
    /\ current_vec = <<>>
    /\ main_pc = "off"

(* main: mpsc::channel(), current_vec = None, at the head of 'mainloop *)
MainOn ==
    /\ chan = <<>>
    /\ rx_alive = TRUE
    /\ current_vec = <<>>
    /\ main_pc = "recv"

Init ==
    /\ size = BoardSide /\ NewBoard /\ InitLocals /\ MainOff
    /\ limit = MaxSteps /\ trail = {}

InitSmall ==
    /\ size \in ReducedSizes /\ NewBoard /\ InitLocals /\ MainOff
    /\ limit = MaxSteps /\ trail = {}

InitMain ==
    /\ size = BoardSide /\ NewBoard /\ InitLocals /\ MainOn
    /\ limit = MaxMainSteps /\ trail = {}

InitTrail ==
    /\ size \in ReducedSizes \cup {BoardSide} /\ NewBoard /\ InitLocals
    /\ MainOff
    /\ limit = MaxTrailSteps /\ trail = {moves_made}

(* One pass through the head of do_loop's loop: get_action and the match.   *)
(* Move enters apply_best_move; Rollback runs rollback and pops the         *)
(* candidate stack; Stop breaks out of the loop.                            *)
LoopStep ==
    /\ pc = "loop"
    /\ steps < limit
    /\ steps' = steps + 1
    /\ UNCHANGED <<size, sent, limit, trail, chan, main_vars>>
    /\ CASE get_action(moves_to_make) = "Move" ->
              /\ cands' = Last(moves_to_make)
              /\ i' = 1
              /\ best' = <<>>
              /\ entry' = <<ThisBoard, moves_to_make>>
              /\ pc' = "eval"
              /\ UNCHANGED <<moves_made, current, moves_to_make, board>>
         [] get_action(moves_to_make) = "Rollback" ->
              IF moves_made = <<>>
              THEN \* set_value_at runs, then the expect on pop panics: Logic error
                   /\ board' = set_value_at(board, current, 0)
                   /\ pc' = "panic"
                   /\ UNCHANGED <<moves_made, current, moves_to_make, cands,
                                  i, best, entry>>
              ELSE /\ moves_made' = rollback(ThisBoard).moves_made
                   /\ current' = rollback(ThisBoard).current
                   /\ board' = rollback(ThisBoard).board
                   /\ moves_to_make' = pop_candidates(moves_to_make)
                   /\ pc' = "loop"
                   /\ UNCHANGED <<cands, i, best, entry>>
         [] OTHER ->
              /\ pc' = "done"
              /\ UNCHANGED <<moves_made, current, moves_to_make, board, cands,
                             i, best, entry>>

(* make_move as a step of the thread: current += c and the push run, then  *)
(* set_value_at indexes the grid, which panics outside 0..63.              *)
MakeMoveStep(c, ok_pc) ==
    IF InRange(index_of(Add(current, c)))
    THEN /\ moves_made' = make_move(ThisBoard, c).moves_made
         /\ current' = make_move(ThisBoard, c).current
         /\ board' = make_move(ThisBoard, c).board
         /\ pc' = ok_pc
    ELSE /\ moves_made' = Append(moves_made, c)
         /\ current' = Add(current, c)
         /\ board' = board
         /\ pc' = "panic"

(* apply_best_move, loop body, first half: make_move of candidate i *)
EvalMake ==
    /\ pc = "eval"
    /\ i <= Len(cands)
    /\ MakeMoveStep(cands[i], "made")
    /\ UNCHANGED <<size, moves_to_make, cands, i, best, sent, steps, entry,
                   limit, trail, chan, main_vars>>

(* apply_best_move, loop body, second half: count the onward moves,        *)
(* rollback, update best, next candidate                                   *)
EvalUndo ==
    /\ pc = "made"
    /\ moves_made' = rollback(ThisBoard).moves_made
    /\ current' = rollback(ThisBoard).current
    /\ board' = rollback(ThisBoard).board
    /\ best' = pick_best(best, cands[i], Len(available_moves(ThisBoard)), i)
    /\ i' = i + 1
    /\ pc' = "eval"
    /\ UNCHANGED <<size, moves_to_make, cands, sent, steps, entry, limit,
                   trail, chan, main_vars>>

(* the histories recorded so far, with h added when they are recorded *)
Recorded(tr, h) == IF tr = {} THEN tr ELSE tr \cup {h}

(* apply_best_move after its loop (assert, make_move of the winner, remove  *)
(* it from the top list, push the new depth's list), then do_loop's test    *)
(* and send(..).unwrap(): send fails when the receiver is dropped, and the  *)
(* unwrap of its Err panics.                                                *)
Commit ==
    /\ pc = "eval"
    /\ i > Len(cands)
    /\ UNCHANGED <<size, cands, i, best, steps, entry, limit, main_vars>>
    /\ IF best = <<>>
       THEN /\ pc' = "panic"
            /\ UNCHANGED <<moves_made, current, board, moves_to_make, sent,
                           chan, trail>>
       ELSE IF ~InRange(index_of(Add(current, best[1])))
       THEN /\ MakeMoveStep(best[1], "loop")
            /\ UNCHANGED <<moves_to_make, sent, chan, trail>>
       ELSE LET b1 == make_move(ThisBoard, best[1])
            IN  /\ moves_made' = b1.moves_made
                /\ current' = b1.current
                /\ board' = b1.board
                /\ moves_to_make' =
                      Append([moves_to_make EXCEPT ![Len(moves_to_make)] =
                                  Remove(@, best[3])],
                             available_moves(b1))
                /\ trail' = Recorded(trail, b1.moves_made)
                /\ IF ~should_send(b1)
                   THEN pc' = "loop" /\ UNCHANGED <<sent, chan>>
                   ELSE IF rx_alive
                   THEN /\ sent' = Append(sent, b1.moves_made)
                        /\ chan' = Append(chan, b1.moves_made)
                        /\ pc' = "loop"
                   ELSE pc' = "panic" /\ UNCHANGED <<sent, chan>>

(* the received path appended to the one held *)
received_extend(cv, vec) == IF cv = <<>> THEN <<vec>> ELSE <<cv[1] \o vec>>

(* main, line 218: current_vec = Some(vec) *)
received(cv, vec) == <<vec>>

(* main, lines 217-227: if let Ok(vec) = rx.try_recv(): the oldest message  *)
(* replaces current_vec; an empty channel leaves it as it is.               *)
TryRecv ==
    /\ main_pc = "recv"
    /\ main_pc' = "events"
    /\ IF chan # <<>>
       THEN current_vec' = received(current_vec, Head(chan)) /\ chan' = Tail(chan)
       ELSE UNCHANGED <<current_vec, chan>>
    /\ UNCHANGED <<solver_vars, rx_alive>>

(* main, lines 229-238: Escape or Quit breaks 'mainloop, main returns and   *)
(* drops rx with what the channel still holds; any other event goes on.    *)
PollEvents ==
    /\ main_pc = "events"
    /\ \E quit \in BOOLEAN :
          IF quit
          THEN main_pc' = "exited" /\ rx_alive' = FALSE /\ chan' = <<>>
          ELSE main_pc' = "draw" /\ UNCHANGED <<rx_alive, chan>>
    /\ UNCHANGED <<solver_vars, current_vec>>

(* main, lines 240-299: the board and the path of current_vec are drawn *)
Draw ==
    /\ main_pc = "draw"
    /\ main_pc' = "recv"
    /\ UNCHANGED <<solver_vars, chan, rx_alive, current_vec>>

Next == LoopStep \/ EvalMake \/ EvalUndo \/ Commit

Spec == Init /\ [][Next]_vars

(* The same rules on a reduced board, small enough to exhaust the search. *)
SpecSmall == InitSmall /\ [][Next]_vars

(* The solver thread keeps running while it has a step to take. *)
SpecLive == Init /\ [][Next]_vars /\ WF_vars(Next)

(* The solver thread with the histories of its Advance steps recorded. *)
SpecTrail == InitTrail /\ [][Next]_vars

(* The solver thread beside main's loop, in every interleaving. *)
NextMain == Next \/ TryRecv \/ PollEvents \/ Draw

SpecMain == InitMain /\ [][NextMain]_vars


-----------------------------------------------------------------------------
(* Vocabulary of the properties, stated without the model's operators.     *)

Range(s) == {s[k] : k \in 1..Len(s)}

(* the eight knight displacements *)
KnightOffsets ==
    {c \in (-2..2) \X (-2..2) : Abs(c[1]) + Abs(c[2]) = 3 /\ c[1] # 0 /\ c[2] # 0}

OnBoard8(c) == c[1] \in 0..7 /\ c[2] \in 0..7

(* PathOf(s)[k]: the square reached from (0,0) after the first k offsets *)
RECURSIVE PathOf(_)
PathOf(s) ==
    IF s = <<>> THEN <<>>
    ELSE LET p == PathOf(Front(s))
         IN  Append(p, Add(IF p = <<>> THEN <<0, 0>> ELSE Last(p), Last(s)))

AtBoundary == pc = "loop"

(* C1: every sequence sent on the channel has exactly 64 entries, each a   *)
(* knight offset, and its cumulative sums from (0,0) are 64 pairwise       *)
(* distinct on-board squares.                                              *)
WellFormedTour(t) ==
    /\ Len(t) = 64
    /\ \A k \in 1..Len(t) : t[k] \in KnightOffsets
    /\ \A k \in 1..Len(t) : OnBoard8(PathOf(t)[k])
    /\ Cardinality(Range(PathOf(t))) = 64

C1_SentToursCoverBoard ==
    [][sent' # sent =>
          /\ Front(sent') = sent
          /\ WellFormedTour(Last(sent'))]_vars

C1_Witness == Len(sent) >= 2

(* C2: for every emitted sequence, some knight offset added to the square  *)
(* reached after the 64th offset gives the start square (0,0); and         *)
(* is_closed_tour at history length 64 is true only when one more knight   *)
(* move returns to the start square.                                       *)
C2_TourClosesAtStart ==
    /\ \A n \in 1..Len(sent) :
          \E m \in KnightOffsets : Add(Last(PathOf(sent[n])), m) = <<0, 0>>
    /\ (AtBoundary /\ Len(moves_made) = 64 /\ is_closed_tour(ThisBoard)) =>
          \E m \in KnightOffsets : Add(current, m) = <<0, 0>>

(* the driver boundary right after the send of a full closed history *)
C3_Witness ==
    /\ AtBoundary
    /\ Len(moves_made) = 64
    /\ is_closed_tour(ThisBoard)
    /\ sent # <<>>
    /\ Last(sent) = moves_made

(* C3: from Board::new the driver loop eventually reaches a state with 64  *)
(* moves made and is_closed_tour true, and emits that tour.                *)
C3_EventuallyEmits == <>C3_Witness

(* C4: the knight never re-enters the start square mid-tour: at no driver  *)
(* boundary does (0,0) hold a visit order below 64, and available_moves    *)
(* offers no offset whose target is (0,0) while fewer than 63 moves have   *)
(* been made.                                                              *)
C4_StartNeverReentered ==
    /\ AtBoundary => board[0] \in {0, 64}
    /\ (pc \in {"loop", "eval", "made"} /\ Len(moves_made) < 63) =>
          \A m \in Range(available_moves(ThisBoard)) :
              Add(current, m) # <<0, 0>>

(* C5: at every driver boundary len(moves_to_make) = len(moves_made) + 1,  *)
(* and a candidate-stack entry is popped only when it is empty and         *)
(* together with exactly one rollback of the history.                      *)
C5_StackTracksHistory ==
    /\ [](AtBoundary => Len(moves_to_make) = Len(moves_made) + 1)
    /\ [][Len(moves_to_make') < Len(moves_to_make) =>
             /\ Last(moves_to_make) = <<>>
             /\ moves_to_make' = Front(moves_to_make)
             /\ moves_made # <<>>
             /\ moves_made' = Front(moves_made)]_vars

(* a boundary reached by a Rollback step: steps = advances + rollbacks,    *)
(* len(moves_made) = advances - rollbacks                                  *)
C5_Witness ==
    /\ AtBoundary
    /\ Len(moves_made) >= 1
    /\ Len(moves_made) < steps
    /\ Last(moves_to_make) # <<>>

(* C6: at every driver boundary the non-zero cells are exactly the         *)
(* prefix-sum squares of moves_made, the k-th of them holds k, the set of  *)
(* non-zero values is 1..len(moves_made) with no value in two cells, and   *)
(* the cell of current holds len(moves_made) once a move has been made.    *)
C6_GridMatchesHistory ==
    AtBoundary =>
        LET n == Len(moves_made)
            p == PathOf(moves_made)
        IN  /\ \A f, r \in 0..7 :
                  board[f * 8 + r] # 0 <=> \E k \in 1..n : p[k] = <<f, r>>
            /\ \A k \in 1..n : board[p[k][1] * 8 + p[k][2]] = k
            /\ {board[x] : x \in 0..63} \ {0} = 1..n
            /\ \A x, y \in 0..63 : (x # y /\ board[x] # 0) => board[x] # board[y]
            /\ n >= 1 => board[current[1] * 8 + current[2]] = n

(* a dead end deep in the search, about to be rolled back *)
C6_Witness ==
    /\ AtBoundary
    /\ Len(moves_made) >= 10
    /\ Last(moves_to_make) = <<>>
    /\ board[0] # 0

(* C7: in every state, also inside apply_best_move's simulate-and-undo     *)
(* loop, current is (0,0) plus the sum of moves_made and is on the board,  *)
(* so the grid index file*8+rank lies in 0..63.                            *)
C7_CurrentIsPathEnd ==
    /\ current = (IF moves_made = <<>> THEN <<0, 0>>
                  ELSE Last(PathOf(moves_made)))
    /\ OnBoard8(current)
    /\ current[1] * 8 + current[2] \in 0..63

(* inside the simulation, a candidate made and not yet undone *)
C7_Witness == pc = "made" /\ Len(moves_made) >= 2 /\ i >= 2

(* C8: apply_best_move applies the candidate of the top list whose         *)
(* mobility after the move is minimal, and among equals the one with the   *)
(* smallest index.                                                         *)
Mobility(b, c) == Len(available_moves(make_move(b, c)))

FirstMinimal(b, top) ==
    CHOOSE j \in 1..Len(top) :
        /\ \A k \in 1..Len(top) : Mobility(b, top[j]) <= Mobility(b, top[k])
        /\ \A k \in 1..(j - 1) : Mobility(b, top[k]) > Mobility(b, top[j])

C8_WarnsdorffFirstWins ==
    [][(pc = "eval" /\ pc' = "loop") =>
          LET top == Last(moves_to_make)
              j   == FirstMinimal(ThisBoard, top)
          IN  /\ moves_made' = Append(moves_made, top[j])
              /\ current' = Add(current, top[j])
              /\ moves_to_make'[Len(moves_to_make)] = Remove(top, j)]_vars

(* just after a commit in which a later candidate tied with the winner *)
C8_Witness ==
    /\ AtBoundary
    /\ best # <<>>
    /\ Len(moves_made) = Len(entry[1].moves_made) + 1
    /\ Last(moves_made) = best[1]
    /\ \E k \in (best[3] + 1)..Len(cands) :
          Mobility(entry[1], cands[k]) = best[2]

(* C9: make_move followed by rollback restores current, all 64 cells and   *)
(* moves_made, for every offset whose target is on-board and unvisited;    *)
(* and the evaluation phase of apply_best_move leaves current, board,      *)
(* moves_made and moves_to_make as they were on entry.                     *)
C9_RollbackInvertsMove ==
    /\ \A m \in KnightOffsets :
          LET t == Add(current, m)
          IN  (OnBoard8(t) /\ board[t[1] * 8 + t[2]] = 0) =>
                  rollback(make_move(ThisBoard, m)) = ThisBoard
    /\ pc = "eval" => ThisBoard = entry[1] /\ moves_to_make = entry[2]

(* between two candidates, after at least one was simulated and undone *)
C9_Witness == pc = "eval" /\ i >= 3 /\ Len(moves_made) >= 1

(* C10: rollback is never invoked with an empty history: whenever the      *)
(* driver's derived action is Rollback, len(moves_made) >= 1, and the      *)
(* Logic error fault is not reached.                                       *)
C10_RollbackHasHistory ==
    /\ (AtBoundary /\ get_action(moves_to_make) = "Rollback") =>
          Len(moves_made) >= 1
    /\ pc # "panic"

(* C11: when the search space is exhausted the candidate stack becomes     *)
(* empty, the driver derives Terminate and the loop stops normally: the    *)
(* loop only ever ends in the Terminate state.                             *)
C11_ExhaustionTerminates ==
    pc \in {"done", "panic"} => (pc = "done" /\ moves_to_make = <<>>)

(* C12: a send on a channel whose receiver is gone does not end the        *)
(* solver in a panic.                                                      *)
C12_SendFailureRecoverable == ~rx_alive => pc # "panic"

(* the first two tours of an independent run of the algorithm *)
FirstTour ==
    <<
       <<1, 2>>, <<-1, -2>>, <<2, 1>>, <<2, -1>>, <<2, 1>>, <<1, 2>>,
       <<-1, 2>>, <<1, 2>>, <<-2, -1>>, <<2, -1>>, <<-1, 2>>, <<-2, -1>>,
       <<-2, 1>>, <<-2, -1>>, <<1, -2>>, <<-1, -2>>, <<1, -2>>, <<2, 1>>,
       <<2, -1>>, <<2, 1>>, <<-1, 2>>, <<-2, -1>>, <<-1, -2>>, <<-2, 1>>,
       <<-1, 2>>, <<1, 2>>, <<-1, 2>>, <<2, -1>>, <<2, 1>>, <<2, -1>>,
       <<1, -2>>, <<-1, -2>>, <<1, -2>>, <<-2, 1>>, <<2, 1>>, <<-1, -2>>,
       <<-1, 2>>, <<1, 2>>, <<1, 2>>, <<-2, 1>>, <<-1, -2>>, <<-1, 2>>,
       <<-2, -1>>, <<-1, -2>>, <<2, -1>>, <<1, 2>>, <<2, -1>>, <<-2, -1>>,
       <<1, -2>>, <<1, 2>>, <<-2, 1>>, <<2, 1>>, <<-1, -2>>, <<-2, -1>>,
       <<-2, -1>>, <<2, -1>>, <<1, 2>>, <<1, 2>>, <<-1, 2>>, <<-2, 1>>,
       <<1, -2>>, <<-1, -2>>, <<-1, 2>>, <<2, -1>>
    >>

SecondTour ==
    <<
       <<1, 2>>, <<-1, -2>>, <<2, 1>>, <<2, -1>>, <<2, 1>>, <<1, 2>>,
       <<-1, 2>>, <<1, 2>>, <<-2, -1>>, <<2, -1>>, <<-1, 2>>, <<-2, -1>>,
       <<-2, 1>>, <<-2, -1>>, <<1, -2>>, <<-1, -2>>, <<1, -2>>, <<2, 1>>,
       <<2, -1>>, <<2, 1>>, <<-1, 2>>, <<-2, -1>>, <<-1, -2>>, <<-2, 1>>,
       <<-1, 2>>, <<1, 2>>, <<-1, 2>>, <<2, -1>>, <<2, 1>>, <<2, -1>>,
       <<1, -2>>, <<-1, -2>>, <<1, -2>>, <<-2, 1>>, <<2, 1>>, <<-1, -2>>,
       <<-1, 2>>, <<1, 2>>, <<1, 2>>, <<-2, 1>>, <<-1, -2>>, <<-1, 2>>,
       <<-2, -1>>, <<-1, -2>>, <<2, -1>>, <<1, 2>>, <<2, -1>>, <<-2, -1>>,
       <<1, -2>>, <<1, 2>>, <<-2, 1>>, <<2, 1>>, <<-1, -2>>, <<-2, -1>>,
       <<-2, -1>>, <<2, -1>>, <<1, 2>>, <<1, 2>>, <<-2, 1>>, <<-1, -2>>,
       <<-1, 2>>, <<1, 2>>, <<2, -1>>, <<-1, -2>>
    >>

(* C13: the search is deterministic: in every state at most one step of    *)
(* the driver loop is possible, one is possible until the loop ends, and   *)
(* whatever main's loop does in between, the first and the second emitted  *)
(* tour are the same as in any other run.                                  *)
C13_Deterministic ==
    /\ ~(ENABLED LoopStep /\ ENABLED EvalMake)
    /\ ~(ENABLED LoopStep /\ ENABLED EvalUndo)
    /\ ~(ENABLED LoopStep /\ ENABLED Commit)
    /\ ~(ENABLED EvalMake /\ ENABLED EvalUndo)
    /\ ~(ENABLED EvalMake /\ ENABLED Commit)
    /\ ~(ENABLED EvalUndo /\ ENABLED Commit)
    /\ (pc \in {"loop", "eval", "made"} /\ steps < limit) => ENABLED Next
    /\ Len(sent) >= 1 => sent[1] = FirstTour
    /\ Len(sent) >= 2 => sent[2] = SecondTour

(* two tours emitted while main's loop ran beside the solver *)
C13_Witness == Len(sent) >= 2 /\ main_pc # "recv" /\ current_vec # <<>>

(* C14: available_moves returns exactly the offsets of the canonical table *)
(* whose target is on-board and unvisited, in the table's order, and the   *)
(* grid is read only at on-board coordinates.                              *)
CanonicalTable ==
    << <<1, 2>>, <<1, -2>>, <<2, 1>>, <<2, -1>>,
       <<-1, 2>>, <<-1, -2>>, <<-2, 1>>, <<-2, -1>> >>

FreeTarget(m) ==
    /\ OnBoard8(Add(current, m))
    /\ board[(current[1] + m[1]) * 8 + (current[2] + m[2])] = 0

C14_AvailableMovesExact ==
    /\ moves = CanonicalTable
    /\ available_moves(ThisBoard) = SelectSeq(CanonicalTable, FreeTarget)
    /\ \A m \in Range(moves) :
          is_on_board(Add(current, m)) => OnBoard8(Add(current, m))

(* some offsets are left out as off-board, some as visited, some remain *)
C14_Witness ==
    /\ available_moves(ThisBoard) # <<>>
    /\ \E m \in KnightOffsets : ~OnBoard8(Add(current, m))
    /\ \E m \in KnightOffsets : OnBoard8(Add(current, m)) /\ ~FreeTarget(m)
    /\ Len(moves_made) >= 5

(* C15: a tour is emitted in a step iff the step completes an Advance     *)
(* after which 64 moves are made and is_closed_tour holds; the value is    *)
(* the full history; the next driver step rolls the 64th move back,        *)
(* emits nothing and the loop goes on.                                     *)
C15_EmitOnClosedFullAdvance ==
    [][/\ (sent' # sent) <=>
             /\ pc = "eval"
             /\ pc' = "loop"
             /\ Len(moves_made') = 64
             /\ is_closed_tour(Brd(moves_made', current', board'))
       /\ sent' # sent => sent' = Append(sent, moves_made')
       /\ (AtBoundary /\ Len(moves_made) = 64) =>
             /\ pc' = "loop"
             /\ moves_made' = Front(moves_made)
             /\ moves_to_make' = Front(moves_to_make)
             /\ sent' = sent]_vars

(* the boundary after the rollback that follows an emission *)
C15_Witness ==
    /\ AtBoundary
    /\ Len(moves_made) = 63
    /\ sent # <<>>
    /\ Front(Last(sent)) = moves_made
    /\ Last(moves_to_make) = <<>>

(* C16: in every interleaving of the solver and main's loop the path the   *)
(* renderer holds is absent or one whole emitted tour, tours are taken     *)
(* one per poll in emission order, and neither send nor try_recv waits.    *)
C16_RendererHoldsWholeTour ==
    /\ \/ current_vec = <<>>
       \/ /\ Len(current_vec) = 1
          /\ Len(current_vec[1]) = 64
          /\ \E k \in 1..Len(sent) : current_vec[1] = sent[k]
    /\ rx_alive =>
          LET k == Len(sent) - Len(chan)
          IN  /\ k >= 0
              /\ chan = SubSeq(sent, k + 1, Len(sent))
              /\ current_vec = IF k = 0 THEN <<>> ELSE <<sent[k]>>
    /\ (pc = "eval" /\ i > Len(cands)) => ENABLED Commit
    /\ main_pc = "recv" => ENABLED TryRecv

(* the renderer holds the first tour while the second waits in the channel *)
C16_Witness ==
    /\ current_vec # <<>>
    /\ chan # <<>>
    /\ current_vec[1] # chan[1]
    /\ main_pc = "draw"

(* C17: at every driver boundary each offset left in the top candidate     *)
(* list has an on-board target whose cell is 0, and every make_move,       *)
(* simulated or permanent, lands on an on-board cell that held 0 and       *)
(* writes only that cell.                                                  *)
C17_CandidatesStayValid ==
    /\ []((AtBoundary /\ moves_to_make # <<>>) =>
             \A m \in Range(Last(moves_to_make)) : FreeTarget(m))
    /\ [][Len(moves_made') = Len(moves_made) + 1 =>
             LET t == current'
                 x == t[1] * 8 + t[2]
             IN  /\ OnBoard8(t)
                 /\ x \in 0..63
                 /\ board[x] = 0
                 /\ board' = [board EXCEPT ![x] = Len(moves_made')]]_vars

(* back at a depth where one candidate was already used up *)
C17_Witness ==
    /\ AtBoundary
    /\ Last(moves_to_make) # <<>>
    /\ Len(Last(moves_to_make)) < Len(available_moves(ThisBoard))
    /\ Len(moves_made) >= 2

(* C18: no two Advance steps leave the same history: the winner is taken   *)
(* out of its depth's list and the rest keeps its order; so any two        *)
(* emitted tours differ.                                                   *)
Without(s, j) == [k \in 1..(Len(s) - 1) |-> IF k < j THEN s[k] ELSE s[k + 1]]

C18_NoPathTwice ==
    /\ [](AtBoundary => moves_made \in trail)
    /\ [][(pc = "eval" /\ pc' = "loop") =>
             /\ moves_made' \notin trail
             /\ \E j \in 1..Len(Last(moves_to_make)) :
                   /\ Last(moves_to_make)[j] = Last(moves_made')
                   /\ moves_to_make'[Len(moves_to_make)] =
                         Without(Last(moves_to_make), j)
             /\ sent' # sent => Last(sent') \notin Range(sent)]_vars

C18_Witness == Len(sent) >= 3 /\ Cardinality(trail) >= 100

(* C19: for every emitted tour the square after the 64th offset is one     *)
(* knight move from the square after the 1st, so the 64 squares joined in  *)
(* order and closed from last to first form a closed knight cycle.         *)
C19_ClosedCycleOfSquares ==
    [][sent' # sent =>
          LET p == PathOf(Last(sent'))
          IN  /\ Len(p) = 64
              /\ Sub(p[1], p[64]) \in KnightOffsets
              /\ \A k \in 1..63 : Sub(p[k + 1], p[k]) \in KnightOffsets
              /\ Cardinality(Range(p)) = 64]_vars

(* an emitted cycle that closes on the first square, not on the start *)
C19_Witness ==
    /\ sent # <<>>
    /\ Sub(PathOf(Last(sent))[1], Last(PathOf(Last(sent)))) \in KnightOffsets
    /\ Last(PathOf(Last(sent))) \notin KnightOffsets

=============================================================================
